---------------------------- MODULE Spec2Model ----------------------------
(* Model of frontend/src/components/Dashboard.jsx: the polling effect,     *)
(* the fetchData cycle with its two concurrent requests, and the render    *)
(* mapping from the component state to what is put on screen.              *)
EXTENDS Integers, Sequences, FiniteSets, TLC

VARIABLES metrics, status, error, loading, phase, interval, clock, cleared, started, cyc, order, late, screen

vars == <<metrics, status, error, loading, phase, interval, clock, cleared, started, cyc, order, late, screen>>

(* ------------------------------ bounds -------------------------------- *)
\* number of fetch cycles the poller may start in a run
MaxCycles == 2
\* number of expected metrics fields one snapshot may lack
MaxAbsent == 2

(* --------------------------- JavaScript values ------------------------ *)
Null == [t |-> "null"]
Undefined == [t |-> "undefined"]
NaN == [t |-> "nan"]
Str(s) == [t |-> "string", v |-> s]
\* numbers are fixed point: v counts units of 10^-5
Num(n) == [t |-> "number", v |-> n]
Obj(fields) == [t |-> "object", f |-> fields]

Truthy(x) ==
  CASE x.t = "null" -> FALSE
    [] x.t = "undefined" -> FALSE
    [] x.t = "nan" -> FALSE
    [] x.t = "string" -> x.v # ""
    [] x.t = "number" -> x.v # 0
    [] OTHER -> TRUE

\* o.name: an own property, or undefined when the object lacks it
Get(o, name) == IF name \in DOMAIN o.f THEN o.f[name] ELSE Undefined

\* reading a property of null or undefined throws a TypeError
CanRead(o) == o.t \notin {"null", "undefined"}


(* --------------------------- number formatting ------------------------ *)
RECURSIVE Pow10(_)
Pow10(k) == IF k = 0 THEN 1 ELSE 10 * Pow10(k - 1)

\* the fixed-point unit of Num: 10^5 units make 1
Unit == Pow10(5)

Abs(n) == IF n < 0 THEN -n ELSE n

\* the decimal digits of m, zero-padded on the left to width d
RECURSIVE PadDigits(_, _)
PadDigits(m, d) == IF d = 0 THEN "" ELSE PadDigits(m \div 10, d - 1) \o ToString(m % 10)

\* Number.prototype.toFixed on a finite value of v units: the nearest multiple
\* of 10^-d (the larger one on a tie), sign first, d digits after the point
FixedDigits(v, d) ==
  LET n == (Abs(v) * Pow10(d) + Unit \div 2) \div Unit
      whole == ToString(n \div Pow10(d))
      frac == IF d = 0 THEN "" ELSE "." \o PadDigits(n % Pow10(d), d)
  IN (IF v < 0 THEN "-" ELSE "") \o whole \o frac

\* x.toFixed(d) for a number or NaN
ToFixed(x, d) == IF x.t = "nan" THEN Str("NaN") ELSE Str(FixedDigits(x.v, d))

\* x?.toFixed(d)
OptToFixed(x, d) == IF CanRead(x) THEN ToFixed(x, d) ELSE Undefined

\* the largest k with 10^k <= v, for v >= 1
RECURSIVE Log10(_)
Log10(v) == IF v < 10 THEN 0 ELSE 1 + Log10(v \div 10)

\* Number.prototype.toExponential on a finite value of v units: one digit,
\* d digits after the point, then the signed decimal exponent
ExpDigits(v, d) ==
  IF v = 0 THEN "0." \o PadDigits(0, d) \o "e+0"
  ELSE LET a == Abs(v)
           k == Log10(a)
           n0 == (2 * a * Pow10(d) + Pow10(k)) \div (2 * Pow10(k))
           up == n0 = Pow10(d + 1)
           n == IF up THEN Pow10(d) ELSE n0
           e == (IF up THEN k + 1 ELSE k) - 5
       IN (IF v < 0 THEN "-" ELSE "") \o ToString(n \div Pow10(d)) \o "." \o PadDigits(n % Pow10(d), d)
          \o "e" \o (IF e < 0 THEN "-" ELSE "+") \o ToString(Abs(e))

\* x?.toExponential(d)
OptToExponential(x, d) ==
  IF ~CanRead(x) THEN Undefined
  ELSE IF x.t = "nan" THEN Str("NaN") ELSE Str(ExpDigits(x.v, d))

\* a || b
OrElse(a, b) == IF Truthy(a) THEN a ELSE b

\* a * 100, where undefined * 100 is NaN and null * 100 is 0
Times100(a) ==
  CASE a.t = "number" -> Num(a.v * 100)
    [] a.t = "null" -> Num(0)
    [] OTHER -> NaN

\* ${x} in a template literal, for the values the render interpolates
Interp(x) ==
  CASE x.t = "string" -> x.v
    [] x.t = "number" -> IF x.v % Unit = 0 THEN ToString(x.v \div Unit) ELSE FixedDigits(x.v, 5)
    [] x.t = "nan" -> "NaN"
    [] OTHER -> x.t

(* ------------------------------ render -------------------------------- *)
Spinner == [kind |-> "spinner"]
\* a render that throws puts nothing of the dashboard on screen
RenderError == [kind |-> "TypeError"]
NotShown == [shown |-> FALSE]
NoScreen == [kind |-> "none"]

\* the severity of the status alert
Severity(st) ==
  LET tag == Get(st, "status")
  IN IF tag = Str("completed") THEN "success"
     ELSE IF tag = Str("training") THEN "info"
     ELSE IF tag = Str("error") THEN "error"
     ELSE "warning"

\* the status alert reads progress_percentage.toFixed only for tag training
StatusThrows(st) ==
  Truthy(st) /\ Get(st, "status") = Str("training") /\ Get(st, "progress_percentage").t # "number"

StatusAlert(st) ==
  IF ~Truthy(st) THEN NotShown
  ELSE [shown |-> TRUE,
        severity |-> Severity(st),
        text |-> (IF Get(st, "message").t = "string" THEN Get(st, "message").v ELSE "") \o " "
                 \o (IF Get(st, "status") = Str("training")
                     THEN "(" \o ToFixed(Get(st, "progress_percentage"), 0).v \o "%)"
                     ELSE "")]

\* the banner on any error, whether or not metrics are held
WarningBannerAnyError(m, e) == Truthy(e)

\* {error && !metrics && <Alert severity="warning">...}
WarningBanner(m, e) == Truthy(e) /\ ~Truthy(m)

\* the improvement chip of a MetricCard: "" when the chip is not rendered
ImprovementChip(imp) ==
  IF imp # Undefined /\ imp.t = "number" /\ imp.v > 0
  THEN "+" \o ToFixed(imp, 1).v \o "%"
  ELSE ""

\* the metrics block reads a field of federated_model, improvement and
\* privacy_metrics without optional chaining
MetricsThrows(m) ==
  /\ Truthy(m)
  /\ \/ ~CanRead(Get(m, "federated_model"))
     \/ ~CanRead(Get(m, "improvement"))
     \/ ~CanRead(Get(m, "privacy_metrics"))

\* attacks.membership_inference?.defense_success_rate and the like
OptGet(o, name) == IF CanRead(o) THEN Get(o, name) ELSE Undefined

PrivacyAttacks(attacks) ==
  IF ~Truthy(attacks) THEN NotShown
  ELSE [shown |-> TRUE,
        overall |-> ToFixed(Times100(Get(attacks, "overall_defense_rate")), 1).v \o "%",
        membership |-> ToFixed(Times100(OptGet(Get(attacks, "membership_inference"), "defense_success_rate")), 1).v \o "%",
        inversion |-> ToFixed(Times100(OptGet(Get(attacks, "model_inversion"), "defense_score")), 1).v \o "%"]

PrivacyMetrics(privacy, attacks) ==
  [epsilon |-> "ε = " \o Interp(OrElse(OptToFixed(Get(privacy, "epsilon"), 2), Str("N/A"))),
   delta |-> "δ = " \o Interp(OrElse(OptToExponential(Get(privacy, "delta"), 2), Str("N/A"))),
   noise |-> "Noise: " \o Interp(OrElse(OptToFixed(Get(privacy, "noise_multiplier"), 2), Str("N/A"))),
   clip |-> "Clip: " \o Interp(OrElse(OptToFixed(Get(privacy, "l2_norm_clip"), 1), Str("N/A"))),
   attacks |-> PrivacyAttacks(attacks)]

MetricsBlock(m) ==
  IF ~Truthy(m) THEN NotShown
  ELSE [shown |-> TRUE,
        auc |-> Interp(OrElse(OptToFixed(Get(Get(m, "federated_model"), "auc"), 4), Str("N/A"))),
        aucChip |-> ImprovementChip(Get(Get(m, "improvement"), "auc")),
        recall |-> Interp(OrElse(OptToFixed(Get(Get(m, "federated_model"), "recall"), 4), Str("N/A"))),
        recallChip |-> ImprovementChip(Get(Get(m, "improvement"), "recall")),
        epsilon |-> Interp(OrElse(OptToFixed(Get(Get(m, "privacy_metrics"), "epsilon"), 2), Str("N/A"))),
        cost |-> Interp(OrElse(OptToFixed(Get(m, "communication_cost_mb"), 2), Num(0))) \o " MB",
        privacy |-> PrivacyMetrics(Get(m, "privacy_metrics"), Get(m, "privacy_attacks"))]

\* one render pass of Dashboard over the four state cells
Render(m, st, e, l) ==
  IF l THEN Spinner
  ELSE IF StatusThrows(st) \/ MetricsThrows(m) THEN RenderError
  ELSE [kind |-> "dashboard",
        alert |-> StatusAlert(st),
        warning |-> WarningBanner(m, e),
        metrics |-> MetricsBlock(m)]

(* ------------------------- backend responses -------------------------- *)
\* every expected field of a metrics snapshot, by path
Paths ==
  {"federated_model", "federated_model.auc", "federated_model.recall",
   "improvement", "improvement.auc", "improvement.recall",
   "privacy_metrics", "privacy_metrics.epsilon", "privacy_metrics.delta",
   "privacy_metrics.noise_multiplier", "privacy_metrics.l2_norm_clip",
   "communication_cost_mb",
   "privacy_attacks", "privacy_attacks.overall_defense_rate",
   "privacy_attacks.membership_inference", "privacy_attacks.membership_inference.defense_success_rate",
   "privacy_attacks.model_inversion", "privacy_attacks.model_inversion.defense_score"}

\* the object with the fields of all whose path (prefix.name) is not in A
Present(A, prefix, all) ==
  Obj([n \in {x \in DOMAIN all : (prefix \o x) \notin A} |-> all[n]])

\* a metrics snapshot that lacks the fields whose paths are in A
Snapshot(A) ==
  Present(A, "",
    [federated_model |-> Present(A, "federated_model.", [auc |-> Num(95123), recall |-> Num(88000)]),
     improvement |-> Present(A, "improvement.", [auc |-> Num(254000), recall |-> Num(-100000)]),
     privacy_metrics |-> Present(A, "privacy_metrics.",
        [epsilon |-> Num(120000), delta |-> Num(1), noise_multiplier |-> Num(110000), l2_norm_clip |-> Num(100000)]),
     communication_cost_mb |-> Num(1234600),
     privacy_attacks |-> Present(A, "privacy_attacks.",
        [overall_defense_rate |-> Num(98740),
         membership_inference |-> Present(A, "privacy_attacks.membership_inference.", [defense_success_rate |-> Num(50000)]),
         model_inversion |-> Present(A, "privacy_attacks.model_inversion.", [defense_score |-> Num(91000)])])])

\* the snapshots the render is checked over: up to MaxAbsent fields absent
RenderSnapshots == {Snapshot(A) : A \in {B \in SUBSET Paths : Cardinality(B) <= MaxAbsent}}

\* the response bodies getMetrics resolves with while polling
MetricsResponses == {Snapshot({}), Snapshot({"privacy_metrics.epsilon", "privacy_attacks"}), Snapshot({"improvement"})}

StatusCompleted == Obj([status |-> Str("completed"), message |-> Str("Done")])
StatusTraining == Obj([status |-> Str("training"), message |-> Str("Training"), progress_percentage |-> Num(4230000)])
StatusError == Obj([status |-> Str("error"), message |-> Str("Training failed")])
StatusIdle == Obj([status |-> Str("idle"), message |-> Str("Not started")])

StatusSnapshots == {StatusCompleted, StatusTraining, StatusError, StatusIdle}

\* the response bodies getStatus resolves with while polling
StatusResponses == {StatusCompleted, StatusTraining}

\* err.message of a rejected getStatus
Messages == {"Network Error", "Request failed with status code 500"}

(* --------------------------- the component ---------------------------- *)
\* setInterval(fetchData, 5000)
RefreshMs == 5000

Cycles == 1..MaxCycles

NotIssued == [k |-> "none"]
Pending == [k |-> "pending"]
Resolved(d) == [k |-> "ok", data |-> d]
Rejected == [k |-> "rejected"]
RejectedWith(msg) == [k |-> "rejected", message |-> msg]

\* a cycle is one call of fetchData: m is its getMetrics request, s its getStatus request
IdleCycle == [phase |-> "idle", m |-> NotIssued, s |-> NotIssued]

InFlight == {c \in Cycles : cyc[c].phase = "inflight"}

\* useState(null), useState(null), useState(true), useState(null), before the effect runs
Init ==
  /\ metrics = Null
  /\ status = Null
  /\ loading = TRUE
  /\ error = Null
  /\ phase = "init"
  /\ interval = Null
  /\ clock = 0
  /\ cleared = 0
  /\ started = 0
  /\ cyc = [c \in Cycles |-> IdleCycle]
  /\ order = <<>>
  /\ late = 0
  /\ screen = Render(Null, Null, Null, TRUE)

\* a state update re-renders the component while it is mounted
Rerender ==
  screen' = IF phase' = "mounted" THEN Render(metrics', status', error', loading') ELSE NoScreen

\* fetchData up to its await: both requests are issued at once
StartCycle ==
  /\ started' = started + 1
  /\ cyc' = [cyc EXCEPT ![started + 1] = [phase |-> "inflight", m |-> Pending, s |-> Pending]]

\* the effect without its first fetchData() call
MountNoFetch ==
  /\ phase = "init"
  /\ phase' = "mounted"
  /\ interval' = [delay |-> RefreshMs]
  /\ UNCHANGED <<metrics, status, error, loading, clock, cleared, started, cyc, order, late, screen>>

\* the effect body: fetchData(); setInterval(fetchData, 5000)
Mount ==
  /\ phase = "init"
  /\ phase' = "mounted"
  /\ StartCycle
  /\ interval' = [delay |-> RefreshMs]
  /\ UNCHANGED <<metrics, status, error, loading, clock, cleared, order, late, screen>>

\* a timer callback that skips the cycle while another is pending
TimerFireSkipsWhenBusy ==
  /\ interval # Null
  /\ started < MaxCycles
  /\ clock' = clock + interval.delay
  /\ IF InFlight = {} THEN StartCycle ELSE UNCHANGED <<started, cyc>>
  /\ UNCHANGED <<metrics, status, error, loading, phase, interval, cleared, order, late, screen>>

\* the interval timer fires: fetchData()
TimerFire ==
  /\ interval # Null
  /\ started < MaxCycles
  /\ clock' = clock + interval.delay
  /\ StartCycle
  /\ UNCHANGED <<metrics, status, error, loading, phase, interval, cleared, order, late, screen>>

\* the effect cleanup: clearInterval(interval)
Unmount ==
  /\ phase = "mounted"
  /\ phase' = "unmounted"
  /\ interval' = Null
  /\ cleared' = cleared + 1
  /\ screen' = NoScreen
  /\ UNCHANGED <<metrics, status, error, loading, clock, started, cyc, order, late>>

\* getMetrics().catch(() => null): the response object, or null
MetricsRes(r) == IF r.m.k = "ok" THEN Obj([data |-> r.m.data]) ELSE Null

\* setMetrics without the if (metricsRes) guard: a failed getMetrics clears metrics
TryBlockUnguarded(r) ==
  /\ metrics' = IF Truthy(MetricsRes(r)) THEN Get(MetricsRes(r), "data") ELSE Null
  /\ status' = r.s.data
  /\ error' = Null

\* setStatus only while no status is held
TryBlockKeepsStatus(r) ==
  /\ metrics' = IF Truthy(MetricsRes(r)) THEN Get(MetricsRes(r), "data") ELSE metrics
  /\ status' = IF status = Null THEN r.s.data ELSE status
  /\ error' = Null

\* if (metricsRes) setMetrics(metricsRes.data); setStatus(statusRes.data); setError(null)
TryBlock(r) ==
  /\ metrics' = IF Truthy(MetricsRes(r)) THEN Get(MetricsRes(r), "data") ELSE metrics
  /\ status' = r.s.data
  /\ error' = Null

\* a catch that also drops the data on screen
CatchBlockClears(r) ==
  /\ error' = Str(r.s.message)
  /\ metrics' = Null
  /\ status' = Null

\* catch (err) { setError(err.message) }
CatchBlock(r) ==
  /\ error' = Str(r.s.message)
  /\ UNCHANGED <<metrics, status>>

\* setLoading(false) left out
FinallyBlockMissing == loading' = loading

\* finally { setLoading(false) }
FinallyBlock == loading' = FALSE

\* Promise.all over the two promises: rejected as soon as getStatus rejects,
\* fulfilled once getStatus has resolved and the caught getMetrics has settled
AllSettled(r) ==
  \/ r.s.k = "rejected"
  \/ r.s.k = "ok" /\ r.m.k \in {"ok", "rejected"}

\* the rest of fetchData after the await, for cycle c with the requests as in cyc2
Continuation(c, cyc2) ==
  /\ IF cyc2[c].s.k = "rejected" THEN CatchBlock(cyc2[c]) ELSE TryBlock(cyc2[c])
  /\ FinallyBlock
  /\ cyc' = [cyc2 EXCEPT ![c].phase = "done"]
  /\ order' = Append(order, c)
  /\ late' = IF phase = "unmounted" THEN late + 1 ELSE late
  /\ UNCHANGED <<phase, interval, clock, cleared, started>>
  /\ Rerender

\* a continuation that drops its results once the component is unmounted
ResumeIfActive(c, cyc2) ==
  IF phase = "unmounted"
  THEN /\ cyc' = [cyc2 EXCEPT ![c].phase = "done"]
       /\ order' = Append(order, c)
       /\ UNCHANGED <<metrics, status, error, loading, phase, interval, clock, cleared, started, late, screen>>
  ELSE Continuation(c, cyc2)

\* a continuation that drops its results when a later-started cycle has completed
ResumeIfNewest(c, cyc2) ==
  IF \E d \in Cycles : d > c /\ cyc[d].phase = "done"
  THEN /\ cyc' = [cyc2 EXCEPT ![c].phase = "done"]
       /\ order' = Append(order, c)
       /\ UNCHANGED <<metrics, status, error, loading, phase, interval, clock, cleared, started, late, screen>>
  ELSE Continuation(c, cyc2)

\* the settled await resumes fetchData, whatever else has happened meanwhile
Resume(c, cyc2) == Continuation(c, cyc2)

\* a response arrives for cycle c, leaving its requests as in cyc2
Deliver(c, cyc2) ==
  IF cyc2[c].phase = "inflight" /\ AllSettled(cyc2[c])
  THEN Resume(c, cyc2)
  ELSE /\ cyc' = cyc2
       /\ UNCHANGED <<metrics, status, error, loading, phase, interval, clock, cleared, started, order, late, screen>>

MetricsResolve(c, d) ==
  /\ cyc[c].m.k = "pending"
  /\ Deliver(c, [cyc EXCEPT ![c].m = Resolved(d)])

MetricsReject(c) ==
  /\ cyc[c].m.k = "pending"
  /\ Deliver(c, [cyc EXCEPT ![c].m = Rejected])

StatusResolve(c, d) ==
  /\ cyc[c].s.k = "pending"
  /\ Deliver(c, [cyc EXCEPT ![c].s = Resolved(d)])

StatusReject(c, msg) ==
  /\ cyc[c].s.k = "pending"
  /\ Deliver(c, [cyc EXCEPT ![c].s = RejectedWith(msg)])

Next ==
  \/ Mount
  \/ TimerFire
  \/ Unmount
  \/ \E c \in Cycles, d \in MetricsResponses : MetricsResolve(c, d)
  \/ \E c \in Cycles : MetricsReject(c)
  \/ \E c \in Cycles, d \in StatusResponses : StatusResolve(c, d)
  \/ \E c \in Cycles, msg \in Messages : StatusReject(c, msg)

Spec == Init /\ [][Next]_vars

(* ----------------------- the render, on its own ----------------------- *)
\* any component state, not yet rendered
InitRender ==
  /\ metrics \in {Null} \cup RenderSnapshots
  /\ status \in {Null} \cup StatusSnapshots
  /\ error \in {Null} \cup {Str(msg) : msg \in Messages}
  /\ loading \in BOOLEAN
  /\ phase = "mounted"
  /\ interval = [delay |-> RefreshMs]
  /\ clock = 0
  /\ cleared = 0
  /\ started = 0
  /\ cyc = [c \in Cycles |-> IdleCycle]
  /\ order = <<>>
  /\ late = 0
  /\ screen = NoScreen

RenderPass ==
  /\ screen = NoScreen
  /\ screen' = Render(metrics, status, error, loading)
  /\ UNCHANGED <<metrics, status, error, loading, phase, interval, clock, cleared, started, cyc, order, late>>

NextRender == RenderPass

SpecRender == InitRender /\ [][NextRender]_vars

(* ------------------------------ properties ---------------------------- *)
\* cycle c completes in this step: its continuation runs
Completes(c) == cyc[c].phase = "inflight" /\ cyc'[c].phase = "done"

Done == {c \in Cycles : cyc[c].phase = "done"}

\* the cycle that completed last
LastDone == order[Len(order)]

\* the warning banner "Please train the model first" is on screen
BannerOnScreen == screen.kind = "dashboard" /\ screen.warning

\* C1: loading is true exactly while no fetch cycle has completed, by success
\* or by failure, and once false it never becomes true again
C1_LoadingUntilFirstCompletion ==
  /\ [](loading <=> Done = {})
  /\ [][~loading => ~loading']_vars

C1_Witness ==
  /\ Len(order) = 2
  /\ cyc[order[1]].s.k = "rejected"
  /\ InFlight = {}
  /\ ~loading

\* C2: a cycle whose getStatus request fails sets error to the failure's
\* message and leaves metrics and status as they were, also when its
\* getMetrics request succeeded
C2_FailedCycleKeepsSnapshots ==
  [][\A c \in Cycles :
       Completes(c) /\ cyc'[c].s.k = "rejected"
       => /\ error' = Str(cyc'[c].s.message)
          /\ metrics' = metrics
          /\ status' = status]_vars

C2_Witness ==
  /\ Len(order) = 2
  /\ cyc[order[1]].s.k = "ok"
  /\ cyc[LastDone].s.k = "rejected"
  /\ cyc[LastDone].m.k = "ok"
  /\ metrics # Null
  /\ metrics # cyc[LastDone].m.data
  /\ status = cyc[order[1]].s.data
  /\ error = Str(cyc[LastDone].s.message)

\* C3: a cycle whose getMetrics request fails and whose getStatus request
\* succeeds ends with error null, status the fetched status and metrics as before
C3_MetricsFailureTolerated ==
  [][\A c \in Cycles :
       Completes(c) /\ cyc'[c].s.k = "ok" /\ cyc'[c].m.k = "rejected"
       => /\ error' = Null
          /\ status' = cyc'[c].s.data
          /\ metrics' = metrics]_vars

C3_Witness ==
  /\ Len(order) = 2
  /\ cyc[LastDone].s.k = "ok"
  /\ cyc[LastDone].m.k = "rejected"
  /\ cyc[order[1]].m.k = "ok"
  /\ cyc[order[1]].s.k = "ok"
  /\ metrics = cyc[order[1]].m.data
  /\ status = cyc[LastDone].s.data
  /\ status # cyc[order[1]].s.data
  /\ error = Null

\* the metrics a cycle produced: its response body, or nothing
Produced(r) == IF r.m.k = "ok" THEN r.m.data ELSE Null

\* C4, as claimed: every cycle whose getStatus request succeeds leaves metrics
\* and status both at the values that cycle produced, nothing carried over,
\* and error null
C4_SuccessReplacesBoth ==
  [][\A c \in Cycles :
       Completes(c) /\ cyc'[c].s.k = "ok"
       => /\ metrics' = Produced(cyc'[c])
          /\ status' = cyc'[c].s.data
          /\ error' = Null]_vars

\* C4, amended: every cycle whose getStatus request succeeds leaves status at
\* the value that cycle fetched and error null; metrics is that cycle's
\* response when its getMetrics request succeeded and is carried over otherwise
C4_SuccessReplacesStatus ==
  [][\A c \in Cycles :
       Completes(c) /\ cyc'[c].s.k = "ok"
       => /\ status' = cyc'[c].s.data
          /\ error' = Null
          /\ metrics' = (IF cyc'[c].m.k = "ok" THEN cyc'[c].m.data ELSE metrics)]_vars

C4_Witness ==
  /\ Len(order) = 2
  /\ cyc[order[1]].s.k = "ok" /\ cyc[order[1]].m.k = "ok"
  /\ cyc[LastDone].s.k = "ok" /\ cyc[LastDone].m.k = "ok"
  /\ cyc[order[1]].s.data # cyc[LastDone].s.data
  /\ cyc[order[1]].m.data # cyc[LastDone].m.data
  /\ status = cyc[LastDone].s.data
  /\ metrics = cyc[LastDone].m.data
  /\ error = Null

\* C5: one cycle is started at mount and one more at every firing of the
\* 5000 ms timer; unmounting clears the timer once, and no cycle is started
\* after it
C5_PollerLifecycle ==
  /\ [](/\ started = (IF phase = "init" THEN 0 ELSE 1 + clock \div RefreshMs)
        /\ cleared = (IF phase = "unmounted" THEN 1 ELSE 0)
        /\ (interval # Null <=> phase = "mounted"))
  /\ [][phase = "unmounted" => started' = started /\ phase' = "unmounted"]_vars

C5_Witness ==
  /\ phase = "unmounted"
  /\ clock = RefreshMs
  /\ started = 2
  /\ cleared = 1

\* what the claim says a numeric field shows: "N/A" when absent, else rounded
Shown(x, d) == IF x.t = "number" THEN FixedDigits(x.v, d) ELSE "N/A"

\* C6, as claimed: a render of a loaded state with a metrics snapshot never
\* fails, whichever fields the snapshot lacks, and every numeric field shows
\* its rounded value, or "N/A" when it is absent
C6_RenderTotal ==
  (screen # NoScreen /\ ~loading /\ metrics # Null)
  => /\ screen.kind = "dashboard"
     /\ screen.metrics.auc = Shown(OptGet(Get(metrics, "federated_model"), "auc"), 4)
     /\ screen.metrics.recall = Shown(OptGet(Get(metrics, "federated_model"), "recall"), 4)
     /\ screen.metrics.epsilon = Shown(OptGet(Get(metrics, "privacy_metrics"), "epsilon"), 2)
     /\ screen.metrics.cost = Shown(Get(metrics, "communication_cost_mb"), 2) \o " MB"
     /\ Get(metrics, "privacy_attacks") # Undefined
        => /\ screen.metrics.privacy.attacks.overall
                = Shown(Times100(Get(Get(metrics, "privacy_attacks"), "overall_defense_rate")), 1) \o "%"
           /\ screen.metrics.privacy.attacks.membership
                = Shown(Times100(OptGet(Get(Get(metrics, "privacy_attacks"), "membership_inference"), "defense_success_rate")), 1) \o "%"
           /\ screen.metrics.privacy.attacks.inversion
                = Shown(Times100(OptGet(Get(Get(metrics, "privacy_attacks"), "model_inversion"), "defense_score")), 1) \o "%"

C8_CyclesOverlap ==
  /\ [](interval # Null /\ started < MaxCycles => ENABLED TimerFire)
  /\ [][clock' # clock
        => /\ started' = started + 1
           /\ cyc'[started'].phase = "inflight"
           /\ \A c \in InFlight : cyc'[c] = cyc[c]]_vars

C8_Witness == Cardinality(InFlight) >= 2

\* C9: unmounting clears the timer and leaves the cycles in flight as they
\* are; a cycle that completes after it still sets loading, error, status and
\* metrics
C9_LateUpdates ==
  /\ [][phase = "mounted" /\ phase' = "unmounted" => cyc' = cyc /\ interval' = Null]_vars
  /\ [][\A c \in Cycles :
          Completes(c) /\ phase = "unmounted"
          => /\ loading' = FALSE
             /\ late' = late + 1
             /\ IF cyc'[c].s.k = "rejected"
                THEN error' = Str(cyc'[c].s.message)
                ELSE error' = Null /\ status' = cyc'[c].s.data]_vars

C9_Witness ==
  /\ phase = "unmounted"
  /\ late = 1
  /\ Len(order) = 1
  /\ ~loading
  /\ status # Null

\* C10: error, status and metrics are those of the cycle that completed
\* last, whichever cycle started last
C10_LastCompletedWins ==
  Len(order) > 0 =>
    IF cyc[LastDone].s.k = "rejected"
    THEN error = Str(cyc[LastDone].s.message)
    ELSE /\ error = Null
         /\ status = cyc[LastDone].s.data
         /\ cyc[LastDone].m.k = "ok" => metrics = cyc[LastDone].m.data

\* an earlier-started cycle completed after a later-started one that failed,
\* and cleared its error
C10_Witness ==
  /\ order = <<2, 1>>
  /\ cyc[2].s.k = "rejected"
  /\ cyc[1].s.k = "ok"
  /\ error = Null
  /\ status = cyc[1].s.data

============================================================================
